---- MODULE Spec2Model ----
(***************************************************************************)
(* Access control and quota tracking of the upload bot: the Database class *)
(* of db.py (subscriptions, free-tier usage, the expiry sweep) and the     *)
(* check_auth wrapper of auth.py.                                          *)
(*                                                                         *)
(* Time is counted in ticks; a calendar day is DayLen ticks, so            *)
(* timedelta(days=d) is d * DayLen ticks and the "%Y-%m-%d" string of a    *)
(* timestamp is its day number.  The datetime.now() calls of one method    *)
(* read the same tick.  A Python Optional is a sequence of length 0 (None) *)
(* or 1.  A store call that raises is an input (fail) of the method that   *)
(* makes it.                                                               *)
(***************************************************************************)
EXTENDS Integers, Sequences, FiniteSets, TLC

(* ------------------------------ bounds -------------------------------- *)
MaxTime == 2
DayLen == 2
MaxId == 3
MaxUsageDocs == 2
MaxAuthUsageDocs == 1
MaxSeconds == 10800
MaxDebt == 3600
MaxWorkers == 2

(* --------------------- configuration (vars.py) ------------------------ *)
OWNER_ID == 1
ADMINS == <<2>>

Users == {3, 4}
Bots == {"ugdevbot", "otherbot"}
Secs == {-3600, 3600}
Workers == 1..MaxWorkers

VARIABLES
  now,          \* datetime.now(), in ticks
  users,        \* the users collection: a set of documents
  free_usage,   \* the free_tier_usage collection: a set of documents
  nextId,       \* the next _id the users collection hands out
  ledger,       \* history: seconds the store accepted per (user, bot, date)
  sweep,        \* the running cleanup_expired_users coroutine, and its history
  inflight,     \* add_free_tier_usage calls of concurrent workers, under way
  last          \* the step taken last: its arguments, its result, and (prior)
                \* what it found in the store

vars == <<now, users, free_usage, nextId, ledger, sweep, inflight, last>>

(* ------------------------------ helpers ------------------------------- *)
Max(a, b) == IF a >= b THEN a ELSE b

Range(s) == {s[i] : i \in DOMAIN s}

Call(op, u, b, n, f1, f2, ok, val, prior) ==
  [op |-> op, user_id |-> u, bot_username |-> b, arg |-> n,
   fail1 |-> f1, fail2 |-> f2, ok |-> ok, val |-> val, prior |-> prior,
   args |-> <<>>, reply |-> ""]

(* ------------------------------ db.py --------------------------------- *)
\* the filter {"user_id": user_id, "bot_username": bot_username} on users
users_matching(user_id, bot_username) ==
  {d \in users : d.user_id = user_id /\ d.bot_username = bot_username}

\* find_one: the first match, or None
users_find_one(user_id, bot_username) ==
  LET m == users_matching(user_id, bot_username)
  IN  IF m = {} THEN <<>>
      ELSE <<CHOOSE d \in m : \A e \in m : d.id <= e.id>>

\* get_user: the document, or None when there is none or the store raises
get_user(user_id, bot_username, fail) ==
  IF fail THEN <<>> ELSE users_find_one(user_id, bot_username)

is_admin(user_id) == user_id = OWNER_ID \/ user_id \in Range(ADMINS)

get_today_date_str == now \div DayLen

\* the filter {"user_id", "bot_username", "date"} on free_tier_usage
usage_matching(user_id, bot_username, date) ==
  {d \in free_usage : /\ d.user_id = user_id
                      /\ d.bot_username = bot_username
                      /\ d.date = date}

\* find_one / update_one take the first match in the collection's natural order
usage_first(m) == CHOOSE d \in m : \A e \in m : d.id <= e.id

\* the _id the store gives to the next inserted free_tier_usage document
usage_fresh_id == 1 + Cardinality(free_usage)

\* get_free_tier_usage_today with a filter that leaves the date out
get_free_tier_usage_any_date(user_id, bot_username, fail) ==
  LET m == {d \in free_usage : d.user_id = user_id /\ d.bot_username = bot_username}
  IN  IF fail THEN 0
      ELSE IF m = {} THEN 0
      ELSE (CHOOSE d \in m : \A e \in m : d.date <= e.date).seconds_used

\* get_free_tier_usage_today: seconds_used of today's document; 0 when there
\* is none, and 0 when the store raises
get_free_tier_usage_today(user_id, bot_username, fail) ==
  LET m == usage_matching(user_id, bot_username, get_today_date_str)
  IN  IF fail THEN 0
      ELSE IF m = {} THEN 0
      ELSE usage_first(m).seconds_used

\* can_use_free_tier: (can_use, remaining_seconds).  Its own except branch is
\* dead: get_free_tier_usage_today never raises.
can_use_free_tier(user_id, bot_username, max_hours, fail) ==
  LET max_seconds == max_hours * 3600
      used_seconds == get_free_tier_usage_today(user_id, bot_username, fail)
      remaining_seconds == Max(0, max_seconds - used_seconds)
  IN  <<remaining_seconds > 0, remaining_seconds>>

\* is_user_authorized without the admin list: only the owner bypasses the checks
is_user_authorized_owner_only(user_id, bot_username, failUsers, failUsage) ==
  IF user_id = OWNER_ID THEN TRUE
  ELSE LET user == get_user(user_id, bot_username, failUsers)
       IN  IF user # <<>> /\ user[1].expiry_date > now THEN TRUE
           ELSE can_use_free_tier(user_id, bot_username, 2, failUsage)[1]

\* is_user_authorized with expiry >= now: the instant of expiry still counts as valid
is_user_authorized_inclusive(user_id, bot_username, failUsers, failUsage) ==
  IF user_id = OWNER_ID \/ user_id \in Range(ADMINS) THEN TRUE
  ELSE LET user == get_user(user_id, bot_username, failUsers)
       IN  IF user # <<>> /\ user[1].expiry_date >= now THEN TRUE
           ELSE can_use_free_tier(user_id, bot_username, 2, failUsage)[1]

\* is_user_authorized answering from the record it held before a revoke
is_user_authorized_stale(user_id, bot_username, failUsers, failUsage) ==
  IF user_id = OWNER_ID \/ user_id \in Range(ADMINS) THEN TRUE
  ELSE IF /\ last.op = "remove_user"
          /\ last.user_id = user_id /\ last.bot_username = bot_username
          /\ last.val # <<>> /\ last.val[1] > now
  THEN TRUE
  ELSE LET user == get_user(user_id, bot_username, failUsers)
       IN  IF user # <<>> /\ user[1].expiry_date > now THEN TRUE
           ELSE can_use_free_tier(user_id, bot_username, 2, failUsage)[1]

\* is_user_authorized: admin or owner, else a subscription still valid, else
\* the free tier with max_hours=2
is_user_authorized(user_id, bot_username, failUsers, failUsage) ==
  IF user_id = OWNER_ID \/ user_id \in Range(ADMINS) THEN TRUE
  ELSE LET user == get_user(user_id, bot_username, failUsers)
       IN  IF user # <<>> /\ user[1].expiry_date > now THEN TRUE
           ELSE can_use_free_tier(user_id, bot_username, 2, failUsage)[1]

\* self.users.update_one(filter, {"$set": fields}, upsert=True): the first
\* matching document is rewritten, or a new one is inserted under a fresh _id
users_update_one(user_id, bot_username, name, expiry_date, added_date, last_updated) ==
  LET found == users_find_one(user_id, bot_username)
      fresh == [id |-> nextId, user_id |-> user_id, bot_username |-> bot_username,
                name |-> name, expiry_date |-> expiry_date,
                added_date |-> added_date, last_updated |-> last_updated]
      old == found[1]
      new == [old EXCEPT !.name = name, !.expiry_date = expiry_date,
                         !.added_date = added_date, !.last_updated = last_updated]
  IN  IF found = <<>>
      THEN [users |-> users \cup {fresh}, nextId |-> nextId + 1,
            upserted_id |-> <<nextId>>, modified_count |-> 0]
      ELSE [users |-> (users \ {old}) \cup {new}, nextId |-> nextId,
            upserted_id |-> <<>>, modified_count |-> IF new = old THEN 0 ELSE 1]

\* add_user extending the expiry the record already has
add_user_additive(user_id, name, days, bot_username, fail) ==
  LET found == users_find_one(user_id, bot_username)
      expiry_date == (IF found = <<>> THEN now ELSE found[1].expiry_date) + days * DayLen
      update_result == users_update_one(user_id, bot_username, name,
                                        expiry_date, now, now)
  IN  IF fail
      THEN [users |-> users, nextId |-> nextId, success |-> FALSE, expiry_date |-> <<>>]
      ELSE IF update_result.upserted_id # <<>> \/ update_result.modified_count > 0
      THEN [users |-> update_result.users, nextId |-> update_result.nextId,
            success |-> TRUE, expiry_date |-> <<expiry_date>>]
      ELSE [users |-> update_result.users, nextId |-> update_result.nextId,
            success |-> FALSE, expiry_date |-> <<>>]

\* add_user: (success, expiry_date) and the store it leaves
add_user(user_id, name, days, bot_username, fail) ==
  LET expiry_date == now + days * DayLen
      update_result == users_update_one(user_id, bot_username, name,
                                        expiry_date, now, now)
  IN  IF fail
      THEN [users |-> users, nextId |-> nextId, success |-> FALSE, expiry_date |-> <<>>]
      ELSE IF update_result.upserted_id # <<>> \/ update_result.modified_count > 0
      THEN [users |-> update_result.users, nextId |-> update_result.nextId,
            success |-> TRUE, expiry_date |-> <<expiry_date>>]
      ELSE [users |-> update_result.users, nextId |-> update_result.nextId,
            success |-> FALSE, expiry_date |-> <<>>]

\* remove_user reporting deleted_count >= 0
remove_user_always(user_id, bot_username, fail) ==
  LET found == users_find_one(user_id, bot_username)
      deleted_count == IF found = <<>> THEN 0 ELSE 1
  IN  IF fail THEN [users |-> users, ret |-> FALSE]
      ELSE [users |-> users \ Range(found), ret |-> deleted_count >= 0]

\* remove_user: delete_one on the key; deleted_count > 0
remove_user(user_id, bot_username, fail) ==
  LET found == users_find_one(user_id, bot_username)
      deleted_count == IF found = <<>> THEN 0 ELSE 1
  IN  IF fail THEN [users |-> users, ret |-> FALSE]
      ELSE [users |-> users \ Range(found), ret |-> deleted_count > 0]

\* add_free_tier_usage writing seconds_used with $set
add_free_tier_usage_set(user_id, seconds, bot_username, fail) ==
  LET today == get_today_date_str
      m == usage_matching(user_id, bot_username, today)
      old == usage_first(m)
      fresh == [id |-> usage_fresh_id,
                user_id |-> user_id, bot_username |-> bot_username, date |-> today,
                seconds_used |-> seconds, last_updated |-> now]
      new == [old EXCEPT !.seconds_used = seconds, !.last_updated = now]
  IN  IF fail THEN [free_usage |-> free_usage, ret |-> FALSE]
      ELSE IF m = {} THEN [free_usage |-> free_usage \cup {fresh}, ret |-> TRUE]
      ELSE [free_usage |-> (free_usage \ {old}) \cup {new}, ret |-> TRUE]

\* add_free_tier_usage: one update_one with $inc, $set and $setOnInsert, upsert=True
add_free_tier_usage(user_id, seconds, bot_username, fail) ==
  LET today == get_today_date_str
      m == usage_matching(user_id, bot_username, today)
      old == usage_first(m)
      fresh == [id |-> usage_fresh_id,
                user_id |-> user_id, bot_username |-> bot_username, date |-> today,
                seconds_used |-> seconds, last_updated |-> now]
      new == [old EXCEPT !.seconds_used = old.seconds_used + seconds,
                         !.last_updated = now]
  IN  IF fail THEN [free_usage |-> free_usage, ret |-> FALSE]
      ELSE IF m = {} THEN [free_usage |-> free_usage \cup {fresh}, ret |-> TRUE]
      ELSE [free_usage |-> (free_usage \ {old}) \cup {new}, ret |-> TRUE]

\* get_free_tier_info rounding the minutes to the nearest
get_free_tier_info_rounding(user_id, bot_username, max_hours, fail) ==
  LET max_seconds == max_hours * 3600
      used_seconds == get_free_tier_usage_today(user_id, bot_username, fail)
      remaining_seconds == Max(0, max_seconds - used_seconds)
  IN  [used_seconds |-> used_seconds,
       used_hours |-> used_seconds \div 3600,
       used_mins |-> ((used_seconds % 3600) + 30) \div 60,
       remaining_seconds |-> remaining_seconds,
       remaining_hours |-> remaining_seconds \div 3600,
       remaining_mins |-> ((remaining_seconds % 3600) + 30) \div 60,
       max_hours |-> max_hours, max_seconds |-> max_seconds,
       can_use |-> remaining_seconds > 0,
       today_date |-> get_today_date_str]

\* get_free_tier_info: the dictionary of lines 548-559.  Python's // and % on
\* integers are the floor division and the non-negative remainder, as \div and
\* % are.  The except branch is dead: get_free_tier_usage_today never raises.
get_free_tier_info(user_id, bot_username, max_hours, fail) ==
  LET max_seconds == max_hours * 3600
      used_seconds == get_free_tier_usage_today(user_id, bot_username, fail)
      remaining_seconds == Max(0, max_seconds - used_seconds)
  IN  [used_seconds |-> used_seconds,
       used_hours |-> used_seconds \div 3600,
       used_mins |-> (used_seconds % 3600) \div 60,
       remaining_seconds |-> remaining_seconds,
       remaining_hours |-> remaining_seconds \div 3600,
       remaining_mins |-> (remaining_seconds % 3600) \div 60,
       max_hours |-> max_hours, max_seconds |-> max_seconds,
       can_use |-> remaining_seconds > 0,
       today_date |-> get_today_date_str]

\* get_user_expiry_info with is_active = days_left >= 0
get_user_expiry_info_lenient(user_id, bot_username, fail) ==
  LET user == get_user(user_id, bot_username, fail)
      expiry == user[1].expiry_date
      days_left == (expiry - now) \div DayLen
  IN  IF user = <<>> THEN <<>>
      ELSE <<[name |-> user[1].name, user_id |-> user_id,
              expiry_date |-> expiry \div DayLen, days_left |-> days_left,
              added_date |-> user[1].added_date, is_active |-> days_left >= 0]>>

\* get_user_expiry_info: None without a record (or when the lookup raised),
\* else the record's summary; timedelta.days is the floor of the difference in
\* days and strftime("%d-%m-%Y") keeps the day of the expiry
get_user_expiry_info(user_id, bot_username, fail) ==
  LET user == get_user(user_id, bot_username, fail)
      expiry == user[1].expiry_date
      days_left == (expiry - now) \div DayLen
  IN  IF user = <<>> THEN <<>>
      ELSE <<[name |-> user[1].name, user_id |-> user_id,
              expiry_date |-> expiry \div DayLen, days_left |-> days_left,
              added_date |-> user[1].added_date, is_active |-> days_left > 0]>>

\* list_users: the documents of a bot, projected on name, user_id, expiry_date
list_users(bot_username, fail) ==
  IF fail THEN {}
  ELSE {[name |-> d.name, user_id |-> d.user_id, expiry_date |-> d.expiry_date] :
          d \in {e \in users : e.bot_username = bot_username}}

(* ------------------------------ auth.py ------------------------------- *)
\* A word of message.text.split() is the sequence of its characters.
Digits == <<"0", "1", "2", "3", "4", "5", "6", "7", "8", "9">>

IsDigit(c) == \E i \in DOMAIN Digits : Digits[i] = c

DigitValue(c) == (CHOOSE i \in DOMAIN Digits : Digits[i] = c) - 1

RECURSIVE Decimal(_)
Decimal(w) ==
  IF w = <<>> THEN 0
  ELSE 10 * Decimal(SubSeq(w, 1, Len(w) - 1)) + DigitValue(w[Len(w)])

\* int(word): the number, or ValueError (the empty sequence)
int(w) ==
  LET signed == w # <<>> /\ w[1] \in {"-", "+"}
      body == IF signed THEN Tail(w) ELSE w
  IN  IF body = <<>> \/ \E i \in DOMAIN body : ~IsDigit(body[i]) THEN <<>>
      ELSE IF signed /\ w[1] = "-" THEN <<0 - Decimal(body)>>
      ELSE <<Decimal(body)>>

\* the user_ids of a listing, in ascending order
RECURSIVE Ascending(_)
Ascending(S) ==
  IF S = {} THEN <<>>
  ELSE LET least == CHOOSE x \in S : \A y \in S : x <= y
       IN  <<least>> \o Ascending(S \ {least})

\* add_user_cmd without the admin check of its first lines
add_user_cmd_unchecked(caller, args, name, bot_username, fail) ==
  LET user_id == int(args[1])
      days == int(args[2])
      r == add_user(user_id[1], name, days[1], bot_username, fail)
  IN  IF Len(args) # 2
      THEN [users |-> users, nextId |-> nextId, reply |-> "invalid_format"]
      ELSE IF user_id = <<>> \/ days = <<>>
      THEN [users |-> users, nextId |-> nextId, reply |-> "invalid_number"]
      ELSE [users |-> r.users, nextId |-> r.nextId,
            reply |-> IF r.success THEN "user_added" ELSE "failed"]

\* add_user_cmd: the store it leaves and the reply to the caller
add_user_cmd(caller, args, name, bot_username, fail) ==
  LET user_id == int(args[1])
      days == int(args[2])
      r == add_user(user_id[1], name, days[1], bot_username, fail)
  IN  IF ~is_admin(caller)
      THEN [users |-> users, nextId |-> nextId, reply |-> "not_admin"]
      ELSE IF Len(args) # 2
      THEN [users |-> users, nextId |-> nextId, reply |-> "invalid_format"]
      ELSE IF user_id = <<>> \/ days = <<>>
      THEN [users |-> users, nextId |-> nextId, reply |-> "invalid_number"]
      ELSE [users |-> r.users, nextId |-> r.nextId,
            reply |-> IF r.success THEN "user_added" ELSE "failed"]

\* remove_user_cmd: the store it leaves and the reply to the caller
remove_user_cmd(caller, args, bot_username, fail) ==
  LET user_id == int(args[1])
      r == remove_user(user_id[1], bot_username, fail)
  IN  IF ~is_admin(caller) THEN [users |-> users, reply |-> "not_authorized"]
      ELSE IF Len(args) # 1 THEN [users |-> users, reply |-> "invalid_format"]
      ELSE IF user_id = <<>> THEN [users |-> users, reply |-> "invalid_number"]
      ELSE [users |-> r.users, reply |-> IF r.ret THEN "removed" ELSE "not_found"]

\* list_users_cmd: the reply and the user_ids it shows
list_users_cmd(caller, bot_username, fail) ==
  LET listed == list_users(bot_username, fail)
  IN  IF ~is_admin(caller) THEN [reply |-> "not_authorized", shown |-> <<>>]
      ELSE IF listed = {} THEN [reply |-> "no_users", shown |-> <<>>]
      ELSE [reply |-> "users_list", shown |-> Ascending({d.user_id : d \in listed})]

(* ------------------- cleanup_expired_users (db.py) -------------------- *)
\* for admin in ADMINS + [OWNER_ID]
Recipients == ADMINS \o <<OWNER_ID>>

\* the find() of the sweep without the $nin on user_id
expired_users_all(current_time) ==
  {d \in users : d.expiry_date < current_time}

\* the find() of the sweep: expiry_date $lt current_time, user_id $nin [OWNER_ID] + ADMINS
expired_users(current_time) ==
  {d \in users : /\ d.expiry_date < current_time
                 /\ d.user_id \notin Range(<<OWNER_ID>> \o ADMINS)}

\* No sweep is running.  The fields after removed_count are history: the store
\* at the scan, the documents the scan selected, the _ids this sweep took out
\* of the store, whether every call the sweep made succeeded, the _ids whose
\* user notification raised, the _ids whose delete_one raised, and whether the
\* sweep was started right after another, none of whose store calls raised,
\* returned, at the same clock reading.
IdleSweep ==
  [pc |-> "idle", current_time |-> 0, pending |-> {}, user |-> <<>>, admin |-> 0,
   removed_count |-> 0,
   users0 |-> {}, scanned |-> {}, deleted |-> {}, clean |-> TRUE,
   unsent |-> {}, undeleted |-> {}, follows |-> FALSE]

\* the for loop takes the next document of the cursor, or falls out to the return
Iterate(s, t) ==
  IF s.pending = {}
  THEN t = [s EXCEPT !.pc = "return", !.user = <<>>, !.admin = 0]
  ELSE \E d \in s.pending :
         t = [s EXCEPT !.pc = "notify_user", !.user = <<d>>, !.admin = 0,
                       !.pending = s.pending \ {d}]

(* ------------------------------ actions ------------------------------- *)
NoCall == Call("init", 0, "", 0, FALSE, FALSE, FALSE, <<>>, <<>>)

Init ==
  /\ now = 0
  /\ users = {}
  /\ free_usage = {}
  /\ nextId = 1
  /\ ledger = {}
  /\ sweep = IdleSweep
  /\ inflight = {}
  /\ last = NoCall

\* the clock advances
Tick ==
  /\ now < MaxTime
  /\ now' = now + 1
  /\ last' = Call("tick", 0, "", 0, FALSE, FALSE, FALSE, <<>>, <<>>)
  /\ UNCHANGED <<users, free_usage, nextId, ledger, sweep, inflight>>

\* an authorization check that charges the probe to today's quota
IsUserAuthorizedCharging(user_id, bot_username, failUsers, failUsage) ==
  /\ last' = Call("is_user_authorized", user_id, bot_username, 0,
                  failUsers, failUsage,
                  is_user_authorized(user_id, bot_username, failUsers, failUsage),
                  <<>>, <<>>)
  /\ free_usage' = add_free_tier_usage(user_id, 1, bot_username, FALSE).free_usage
  /\ UNCHANGED <<now, users, nextId, ledger, sweep, inflight>>

\* what the step just before this one returned (val), when it was a successful
\* call of op on the same key
JustBefore(op, user_id, bot_username) ==
  IF /\ last.op = op /\ last.ok
     /\ last.user_id = user_id /\ last.bot_username = bot_username
  THEN last.val ELSE <<>>

\* val and prior are history: the expiry a grant has just written, and the
\* expiry of the record a revoke has just deleted
IsUserAuthorized(user_id, bot_username, failUsers, failUsage) ==
  /\ last' = Call("is_user_authorized", user_id, bot_username, 0,
                  failUsers, failUsage,
                  is_user_authorized(user_id, bot_username, failUsers, failUsage),
                  JustBefore("add_user", user_id, bot_username),
                  JustBefore("remove_user", user_id, bot_username))
  /\ UNCHANGED <<now, users, free_usage, nextId, ledger, sweep, inflight>>

\* the wrapper of check_auth: the wrapped command runs only when authorized
CheckAuth(user_id, bot_username, failUsers, failUsage) ==
  /\ last' = Call("check_auth", user_id, bot_username, 0,
                  failUsers, failUsage,
                  is_user_authorized(user_id, bot_username, failUsers, failUsage),
                  <<>>, <<>>)
  /\ UNCHANGED <<now, users, free_usage, nextId, ledger, sweep, inflight>>

AddUser(user_id, name, days, bot_username, fail) ==
  LET r == add_user(user_id, name, days, bot_username, fail)
      found == users_find_one(user_id, bot_username)
  IN  /\ r.nextId <= MaxId + 1
      /\ users' = r.users
      /\ nextId' = r.nextId
      /\ last' = Call("add_user", user_id, bot_username, days, fail, FALSE,
                      r.success, r.expiry_date,
                      IF found = <<>> THEN <<>> ELSE <<found[1].expiry_date>>)
      /\ UNCHANGED <<now, free_usage, ledger, sweep, inflight>>

RemoveUser(user_id, bot_username, fail) ==
  LET r == remove_user(user_id, bot_username, fail)
      found == users_find_one(user_id, bot_username)
  IN  /\ users' = r.users
      /\ last' = Call("remove_user", user_id, bot_username, 0, fail, FALSE,
                      r.ret,
                      IF found = <<>> THEN <<>> ELSE <<found[1].expiry_date>>,
                      IF found = <<>> THEN <<>> ELSE <<found[1].id>>)
      /\ UNCHANGED <<now, free_usage, nextId, ledger, sweep, inflight>>

\* the seconds the store has accepted for a key on a date
Booked(user_id, bot_username, date) ==
  LET m == {e \in ledger : /\ e.user_id = user_id
                           /\ e.bot_username = bot_username
                           /\ e.date = date}
  IN  IF m = {} THEN 0 ELSE (CHOOSE e \in m : TRUE).total

AddFreeTierUsage(user_id, seconds, bot_username, fail) ==
  LET r == add_free_tier_usage(user_id, seconds, bot_username, fail)
      today == get_today_date_str
      m == usage_matching(user_id, bot_username, today)
      booked == Booked(user_id, bot_username, today)
  IN  /\ Cardinality(r.free_usage) <= MaxUsageDocs
      /\ \A d \in r.free_usage :
           d.seconds_used <= MaxSeconds /\ d.seconds_used >= 0 - MaxDebt
      /\ free_usage' = r.free_usage
      /\ ledger' = IF r.ret
                   THEN {e \in ledger : ~ (/\ e.user_id = user_id
                                           /\ e.bot_username = bot_username
                                           /\ e.date = today)}
                        \cup {[user_id |-> user_id, bot_username |-> bot_username,
                               date |-> today, total |-> booked + seconds]}
                   ELSE ledger
      /\ last' = Call("add_free_tier_usage", user_id, bot_username, seconds,
                      fail, FALSE, r.ret, <<>>,
                      IF m = {} THEN <<>> ELSE <<usage_first(m).seconds_used>>)
      /\ UNCHANGED <<now, users, nextId, sweep, inflight>>

\* the ledger after the store has taken seconds for a key on a date
Book(user_id, bot_username, date, seconds) ==
  {e \in ledger : ~ (/\ e.user_id = user_id
                      /\ e.bot_username = bot_username
                      /\ e.date = date)}
  \cup {[user_id |-> user_id, bot_username |-> bot_username, date |-> date,
         total |-> Booked(user_id, bot_username, date) + seconds]}

\* line 475 in one of several workers: today is read, update_one is not sent yet
AddFreeTierUsageCall(w, user_id, seconds, bot_username) ==
  /\ \A c \in inflight : c.worker # w
  /\ inflight' = inflight \cup
       {[worker |-> w, user_id |-> user_id, bot_username |-> bot_username,
         seconds |-> seconds, date |-> get_today_date_str, pc |-> "update_one"]}
  /\ last' = Call("add_free_tier_usage_call", user_id, bot_username, seconds,
                  FALSE, FALSE, FALSE, <<>>, <<>>)
  /\ UNCHANGED <<now, users, free_usage, nextId, ledger, sweep>>

\* lines 477-493 in the store: the update_one looks for a match.  A match takes
\* the $inc in the same step and the call returns True (line 494).  Without a
\* match the upsert goes on to insert; free_tier_usage has no unique index, so
\* nothing makes the store look again before it inserts.
UsageUpdateOne(w) ==
  \E c \in inflight :
    /\ c.worker = w
    /\ c.pc = "update_one"
    /\ LET m == usage_matching(c.user_id, c.bot_username, c.date)
           old == usage_first(m)
           new == [old EXCEPT !.seconds_used = old.seconds_used + c.seconds,
                              !.last_updated = now]
       IN  IF m = {}
           THEN /\ inflight' = (inflight \ {c}) \cup {[c EXCEPT !.pc = "insert"]}
                /\ last' = Call("update_one", c.user_id, c.bot_username, c.seconds,
                                FALSE, FALSE, FALSE, <<>>, <<>>)
                /\ UNCHANGED <<free_usage, ledger>>
           ELSE /\ new.seconds_used <= MaxSeconds
                /\ free_usage' = (free_usage \ {old}) \cup {new}
                /\ ledger' = Book(c.user_id, c.bot_username, c.date, c.seconds)
                /\ inflight' = inflight \ {c}
                /\ last' = Call("add_free_tier_usage", c.user_id, c.bot_username,
                                c.seconds, FALSE, FALSE, TRUE, <<>>,
                                <<old.seconds_used>>)
    /\ UNCHANGED <<now, users, nextId, sweep>>

\* the insert of an upsert that found no match; the call returns True (line 494)
UsageInsert(w) ==
  \E c \in inflight :
    /\ c.worker = w
    /\ c.pc = "insert"
    /\ Cardinality(free_usage) < MaxUsageDocs
    /\ free_usage' = free_usage \cup
         {[id |-> usage_fresh_id,
           user_id |-> c.user_id, bot_username |-> c.bot_username, date |-> c.date,
           seconds_used |-> c.seconds, last_updated |-> now]}
    /\ ledger' = Book(c.user_id, c.bot_username, c.date, c.seconds)
    /\ inflight' = inflight \ {c}
    /\ last' = Call("add_free_tier_usage", c.user_id, c.bot_username,
                    c.seconds, FALSE, FALSE, TRUE, <<>>, <<>>)
    /\ UNCHANGED <<now, users, nextId, sweep>>

GetFreeTierUsageToday(user_id, bot_username, fail) ==
  /\ last' = Call("get_free_tier_usage_today", user_id, bot_username, 0,
                  fail, FALSE, TRUE,
                  <<get_free_tier_usage_today(user_id, bot_username, fail)>>, <<>>)
  /\ UNCHANGED <<now, users, free_usage, nextId, ledger, sweep, inflight>>

CanUseFreeTier(user_id, bot_username, max_hours, fail) ==
  LET r == can_use_free_tier(user_id, bot_username, max_hours, fail)
  IN  /\ last' = Call("can_use_free_tier", user_id, bot_username, max_hours,
                      fail, FALSE, r[1], <<r[2]>>, <<>>)
      /\ UNCHANGED <<now, users, free_usage, nextId, ledger, sweep, inflight>>

\* val is used_seconds, used_hours, used_mins, remaining_seconds,
\* remaining_hours, remaining_mins of the returned dictionary, ok its can_use
GetFreeTierInfo(user_id, bot_username, max_hours, fail) ==
  LET r == get_free_tier_info(user_id, bot_username, max_hours, fail)
  IN  /\ last' = Call("get_free_tier_info", user_id, bot_username, max_hours,
                      fail, FALSE, r.can_use,
                      <<r.used_seconds, r.used_hours, r.used_mins,
                        r.remaining_seconds, r.remaining_hours, r.remaining_mins>>,
                      <<>>)
      /\ UNCHANGED <<now, users, free_usage, nextId, ledger, sweep, inflight>>

\* val is days_left of the returned dictionary (empty for None), ok its is_active
GetUserExpiryInfo(user_id, bot_username, fail) ==
  LET r == get_user_expiry_info(user_id, bot_username, fail)
  IN  /\ last' = Call("get_user_expiry_info", user_id, bot_username, 0,
                      fail, FALSE,
                      r # <<>> /\ r[1].is_active,
                      IF r = <<>> THEN <<>> ELSE <<r[1].days_left>>,
                      IF r = <<>> THEN <<>> ELSE <<r[1].expiry_date>>)
      /\ UNCHANGED <<now, users, free_usage, nextId, ledger, sweep, inflight>>

AddUserCmd(caller, args, name, bot_username, fail) ==
  LET r == add_user_cmd(caller, args, name, bot_username, fail)
  IN  /\ r.nextId <= MaxId + 1
      /\ users' = r.users
      /\ nextId' = r.nextId
      /\ last' = [Call("add_user_cmd", caller, bot_username, 0, fail, FALSE,
                       r.reply = "user_added", <<>>, <<>>)
                  EXCEPT !.args = args, !.reply = r.reply]
      /\ UNCHANGED <<now, free_usage, ledger, sweep, inflight>>

RemoveUserCmd(caller, args, bot_username, fail) ==
  LET r == remove_user_cmd(caller, args, bot_username, fail)
  IN  /\ users' = r.users
      /\ last' = [Call("remove_user_cmd", caller, bot_username, 0, fail, FALSE,
                       r.reply = "removed", <<>>, <<>>)
                  EXCEPT !.args = args, !.reply = r.reply]
      /\ UNCHANGED <<now, free_usage, nextId, ledger, sweep, inflight>>

ListUsersCmd(caller, bot_username, fail) ==
  LET r == list_users_cmd(caller, bot_username, fail)
  IN  /\ last' = [Call("list_users_cmd", caller, bot_username, 0, fail, FALSE,
                       r.reply = "users_list", r.shown, <<>>)
                  EXCEPT !.reply = r.reply]
      /\ UNCHANGED <<now, users, free_usage, nextId, ledger, sweep, inflight>>

\* the store's TTL index on expiry_date (expireAfterSeconds=0)
TTLExpire ==
  \E d \in users :
    /\ d.expiry_date <= now
    /\ users' = users \ {d}
    /\ last' = Call("ttl", d.user_id, d.bot_username, 0, FALSE, FALSE, TRUE,
                    <<>>, <<d.id>>)
    /\ UNCHANGED <<now, free_usage, nextId, ledger, sweep, inflight>>

SweepStep(what, user_id, ok) ==
  Call("cleanup_step", user_id, what, 0, FALSE, FALSE, ok, <<>>, <<>>)

\* lines 348-355: the scan, up to the first await (or to the return when the
\* cursor is empty or the find raises)
CleanupScan(fail) ==
  /\ sweep.pc = "idle"
  /\ LET found == IF fail THEN {} ELSE expired_users(now)
         s == [IdleSweep EXCEPT !.current_time = now, !.pending = found,
                                !.users0 = users, !.scanned = found,
                                !.clean = ~fail,
                                !.follows = (/\ last.op = "cleanup_expired_users"
                                             /\ last.arg = now
                                             /\ ~last.fail1)]
     IN  Iterate(s, sweep')
  /\ last' = SweepStep("scan", 0, ~fail)
  /\ UNCHANGED <<now, users, free_usage, nextId, ledger, inflight>>

\* a sweep whose loop ends at the first user that cannot be processed
CleanupNotifyUserAborting(sent, failDelete) ==
  /\ sweep.pc = "notify_user"
  /\ LET d == sweep.user[1]
     IN  IF ~sent \/ failDelete
         THEN /\ sweep' = [sweep EXCEPT
                             !.pc = "return", !.user = <<>>, !.clean = FALSE,
                             !.unsent = IF sent THEN @ ELSE @ \cup {d.id},
                             !.undeleted = IF sent THEN @ \cup {d.id} ELSE @]
              /\ users' = users
         ELSE /\ users' = {e \in users : e.id # d.id}
              /\ sweep' = [sweep EXCEPT
                             !.removed_count = @ + 1,
                             !.deleted = @ \cup {e.id : e \in {x \in users : x.id = d.id}},
                             !.pc = "notify_admin", !.admin = 1]
  /\ last' = [SweepStep("notify_user", sweep.user[1].user_id, sent /\ ~failDelete)
                EXCEPT !.fail1 = ~sent, !.fail2 = sent /\ failDelete]
  /\ UNCHANGED <<now, free_usage, nextId, ledger, inflight>>

\* lines 358-368: the user's notification completes; on success the document is
\* deleted by _id and counted, and the first admin notification is awaited
CleanupNotifyUser(sent, failDelete) ==
  /\ sweep.pc = "notify_user"
  /\ LET d == sweep.user[1]
     IN  IF ~sent \/ failDelete
         THEN /\ Iterate([sweep EXCEPT
                           !.clean = FALSE,
                           !.unsent = IF sent THEN @ ELSE @ \cup {d.id},
                           !.undeleted = IF sent THEN @ \cup {d.id} ELSE @],
                         sweep')
              /\ users' = users
         ELSE /\ users' = {e \in users : e.id # d.id}
              /\ sweep' = [sweep EXCEPT
                             !.removed_count = @ + 1,
                             !.deleted = @ \cup {e.id : e \in {x \in users : x.id = d.id}},
                             !.pc = "notify_admin", !.admin = 1]
  /\ last' = [SweepStep("notify_user", sweep.user[1].user_id, sent /\ ~failDelete)
                EXCEPT !.fail1 = ~sent, !.fail2 = sent /\ failDelete]
  /\ UNCHANGED <<now, free_usage, nextId, ledger, inflight>>

\* an admin loop that a failed notification leaves for the next user
CleanupNotifyAdminBreaking(sent) ==
  /\ sweep.pc = "notify_admin"
  /\ LET s == [sweep EXCEPT !.clean = @ /\ sent]
     IN  IF sent /\ sweep.admin < Len(Recipients)
         THEN sweep' = [s EXCEPT !.admin = @ + 1]
         ELSE Iterate(s, sweep')
  /\ last' = SweepStep("notify_admin", Recipients[sweep.admin], sent)
  /\ UNCHANGED <<now, users, free_usage, nextId, ledger, inflight>>

\* lines 377-381: one admin notification completes, whatever its outcome
CleanupNotifyAdmin(sent) ==
  /\ sweep.pc = "notify_admin"
  /\ LET s == [sweep EXCEPT !.clean = @ /\ sent]
     IN  IF sweep.admin < Len(Recipients)
         THEN sweep' = [s EXCEPT !.admin = @ + 1]
         ELSE Iterate(s, sweep')
  /\ last' = SweepStep("notify_admin", Recipients[sweep.admin], sent)
  /\ UNCHANGED <<now, users, free_usage, nextId, ledger, inflight>>

\* line 387 (line 391 after a failed scan): return removed_count
CleanupReturn ==
  /\ sweep.pc = "return"
  /\ sweep' = IdleSweep
  /\ last' = Call("cleanup_expired_users", 0, "", sweep.current_time,
                  \/ (~sweep.clean /\ sweep.scanned = {})
                  \/ sweep.undeleted # {},
                  FALSE, sweep.clean, <<sweep.removed_count>>, <<>>)
  /\ UNCHANGED <<now, users, free_usage, nextId, ledger, inflight>>

(* --------------------------- specifications -------------------------- *)
\* The synchronous calls of Database on one bot, for the owner, an admin and
\* a plain user, with the store's own expiry of documents.
Next ==
  \/ Tick
  \/ \E u \in {OWNER_ID, 2, 3}, f1 \in BOOLEAN, f2 \in BOOLEAN :
       IsUserAuthorized(u, "ugdevbot", f1, f2)
  \/ \E u \in {OWNER_ID, 2, 3} : CheckAuth(u, "ugdevbot", FALSE, FALSE)
  \/ \E u \in {2, 3}, d \in {0, 1} : AddUser(u, "Ann", d, "ugdevbot", FALSE)
  \/ \E u \in {2, 3}, f \in BOOLEAN : RemoveUser(u, "ugdevbot", f)
  \/ /\ \E u \in {2, 3} : AddFreeTierUsage(u, 3600, "ugdevbot", FALSE)
     /\ Cardinality(free_usage') <= MaxAuthUsageDocs
  \/ TTLExpire

Spec == Init /\ [][Next]_vars

\* Subscriptions: grants and revokes on several keys, with store failures.
NextSubs ==
  \/ Tick
  \/ \E u \in Users, d \in {1, 2}, b \in Bots, f \in BOOLEAN :
       AddUser(u, "Ann", d, b, f)
  \/ \E u \in Users, b \in Bots : RemoveUser(u, b, FALSE)
  \/ TTLExpire

SpecSubs == Init /\ [][NextSubs]_vars

\* The free-tier meter.
NextUsage ==
  \/ Tick
  \/ \E u \in Users, s \in Secs, b \in Bots, f \in BOOLEAN :
       AddFreeTierUsage(u, s, b, f)

SpecUsage == Init /\ [][NextUsage]_vars

\* The expiry sweep: grants, revokes, the clock and the TTL index between
\* sweeps, and no other step while a sweep is suspended on a notification.
NextSweep ==
  \/ /\ sweep.pc = "idle"
     /\ \/ Tick
        \/ \E u \in {2, 3, 4}, d \in {-1, 1} : AddUser(u, "Ann", d, "ugdevbot", FALSE)
        \/ \E u \in {3, 4} : RemoveUser(u, "ugdevbot", FALSE)
        \/ TTLExpire
  \/ \E f \in BOOLEAN : CleanupScan(f)
  \/ \E sent \in BOOLEAN, f \in BOOLEAN : CleanupNotifyUser(sent, f)
  \/ \E sent \in BOOLEAN : CleanupNotifyAdmin(sent)
  \/ CleanupReturn

SpecSweep == Init /\ [][NextSweep]_vars

\* The expiry sweep with the rest of the program running during its awaits:
\* grants, renewals and revokes by command handlers, and the TTL index.
NextRace ==
  \/ \E u \in Users, d \in {-1, 1} : AddUser(u, "Ann", d, "ugdevbot", FALSE)
  \/ \E u \in Users : RemoveUser(u, "ugdevbot", FALSE)
  \/ TTLExpire
  \/ CleanupScan(FALSE)
  \/ \E sent \in BOOLEAN : CleanupNotifyUser(sent, FALSE)
  \/ CleanupNotifyAdmin(TRUE)
  \/ CleanupReturn

SpecRace == Init /\ [][NextRace]_vars

\* The free-tier meter charged by concurrent workers.
NextWorkers ==
  \/ Tick
  \/ \E w \in Workers, s \in {1800, 3600} :
       AddFreeTierUsageCall(w, 3, s, "ugdevbot")
  \/ \E w \in Workers : UsageUpdateOne(w)
  \/ \E w \in Workers : UsageInsert(w)

SpecWorkers == Init /\ [][NextWorkers]_vars

\* The read-only queries on a user's quota and subscription.
NextInfo ==
  \/ Tick
  \/ \E d \in {0, 1} : AddUser(3, "Ann", d, "ugdevbot", FALSE)
  \/ AddFreeTierUsage(3, 3600, "ugdevbot", FALSE)
  \/ TTLExpire
  \/ \E u \in Users, f \in BOOLEAN : GetFreeTierUsageToday(u, "ugdevbot", f)
  \/ \E u \in Users, h \in {1, 2}, f \in BOOLEAN : CanUseFreeTier(u, "ugdevbot", h, f)
  \/ \E u \in Users, f \in BOOLEAN : GetUserExpiryInfo(u, "ugdevbot", f)

SpecInfo == Init /\ [][NextInfo]_vars

\* The admin commands of auth.py, sent by the owner, an admin and a plain user.
AddArgs ==
  { <<<<"3">>, <<"1">>>>, <<<<"4">>, <<"1">>>>, <<<<"3">>, <<"0">>>>,
    <<<<"3">>, <<"-", "1">>>>, <<<<"a", "b">>, <<"1">>>>, <<<<"3">>, <<"1", "d">>>>,
    <<<<"3">>>>, <<>> }

RemoveArgs == { <<<<"3">>>>, <<<<"a", "b">>>>, <<>> }

NextCmd ==
  \/ Tick
  \/ \E c \in {OWNER_ID, 3}, a \in AddArgs : AddUserCmd(c, a, "Ann", "ugdevbot", FALSE)
  \/ \E c \in {2, 3}, a \in RemoveArgs : RemoveUserCmd(c, a, "ugdevbot", FALSE)
  \/ \E c \in {OWNER_ID, 3}, f \in BOOLEAN : ListUsersCmd(c, "ugdevbot", f)
  \/ /\ AddFreeTierUsage(3, 3600, "ugdevbot", FALSE)
     /\ Cardinality(free_usage') <= MaxAuthUsageDocs
  \/ TTLExpire

SpecCmd == Init /\ [][NextCmd]_vars

\* The expiry sweep run again and again: the scheduler keeps starting sweeps
\* and every started sweep runs to its return, while notifications may fail
\* each time.  Nothing is assumed of the TTL index, whose creation the program
\* lets fail.
NextSweepFair ==
  \/ /\ sweep.pc = "idle"
     /\ \/ Tick
        \/ \E d \in {-1, 1} : AddUser(3, "Ann", d, "ugdevbot", FALSE)
        \/ TTLExpire
  \/ CleanupScan(FALSE)
  \/ \E sent \in BOOLEAN : CleanupNotifyUser(sent, FALSE)
  \/ \E sent \in BOOLEAN : CleanupNotifyAdmin(sent)
  \/ CleanupReturn

SpecSweepFair ==
  /\ Init
  /\ [][NextSweepFair]_vars
  /\ WF_vars(CleanupScan(FALSE))
  /\ WF_vars(\E sent \in BOOLEAN : CleanupNotifyUser(sent, FALSE))
  /\ WF_vars(\E sent \in BOOLEAN : CleanupNotifyAdmin(sent))
  /\ WF_vars(CleanupReturn)

\* The free-tier report, on usage that is not a whole number of minutes.
NextFreeInfo ==
  \/ \E s \in {1850, 3600, -1850} : AddFreeTierUsage(3, s, "ugdevbot", FALSE)
  \/ \E u \in Users, h \in {1, 2}, f \in BOOLEAN :
       GetFreeTierInfo(u, "ugdevbot", h, f)

SpecFreeInfo == Init /\ [][NextFreeInfo]_vars

(* ------------------------------- claims ------------------------------- *)
\* neither the owner nor an admin
Plain(user_id) == user_id # OWNER_ID /\ user_id \notin Range(ADMINS)

\* seconds_used of the free-tier documents of a key on a date, read off the store
SecondsOn(user_id, bot_username, date) ==
  LET m == {d \in free_usage : /\ d.user_id = user_id
                               /\ d.bot_username = bot_username
                               /\ d.date = date}
  IN  IF m = {} THEN 0 ELSE (CHOOSE d \in m : TRUE).seconds_used

Today == now \div DayLen

\* C1: is_user_authorized returns true for the owner and for every admin,
\* whatever their subscription record and whatever their usage today.
C1_AdminAlwaysAuthorized ==
  (/\ last.op = "is_user_authorized"
   /\ (last.user_id = OWNER_ID \/ last.user_id \in Range(ADMINS)))
  => last.ok

\* an admin whose subscription has expired and whose usage today is at the
\* daily limit has just been authorized
C1_Witness ==
  /\ last.op = "is_user_authorized"
  /\ last.user_id \in Range(ADMINS)
  /\ last.ok
  /\ \E d \in users_matching(last.user_id, last.bot_username) : d.expiry_date <= now
  /\ SecondsOn(last.user_id, last.bot_username, Today) >= 2 * 3600

\* C2, as stated: with the store answering, a plain user holding a subscription
\* record is authorized exactly when expiry_date > now.
C2_Original ==
  (/\ last.op = "is_user_authorized"
   /\ Plain(last.user_id)
   /\ ~last.fail1 /\ ~last.fail2)
  => \A d \in users_matching(last.user_id, last.bot_username) :
       last.ok <=> d.expiry_date > now

\* C2, amended: with the store answering, a plain user holding a subscription
\* record is authorized when expiry_date > now; from the instant of expiry on
\* (now >= expiry_date) the answer is the free tier's: authorized exactly when
\* today's usage is below the two-hour limit.
C2_ExpiredFallsToFreeTier ==
  (/\ last.op = "is_user_authorized"
   /\ Plain(last.user_id)
   /\ ~last.fail1 /\ ~last.fail2)
  => \A d \in users_matching(last.user_id, last.bot_username) :
       last.ok <=> \/ d.expiry_date > now
                   \/ SecondsOn(last.user_id, last.bot_username, Today) < 2 * 3600

\* a plain user is refused at the very instant of expiry, the quota being used up
C2_Witness ==
  /\ last.op = "is_user_authorized"
  /\ Plain(last.user_id)
  /\ ~last.fail1 /\ ~last.fail2
  /\ ~last.ok
  /\ \E d \in users_matching(last.user_id, last.bot_username) : d.expiry_date = now
  /\ SecondsOn(last.user_id, last.bot_username, Today) = 2 * 3600

\* C3: for a plain user, is_user_authorized returns false whenever one of its
\* store reads (the subscription lookup, the usage lookup) fails.
C3_FailClosed ==
  (/\ last.op = "is_user_authorized"
   /\ Plain(last.user_id)
   /\ (last.fail1 \/ last.fail2))
  => ~last.ok

\* C4: an authorization check, direct or through check_auth, changes no
\* subscription record and no usage counter.
C4_AuthLeavesStore ==
  [][last'.op \in {"is_user_authorized", "check_auth"}
       => users' = users /\ free_usage' = free_usage]_vars

\* check_auth has let a plain user through on the free tier, half of whose
\* quota is used and stays used
C4_Witness ==
  /\ last.op = "check_auth"
  /\ Plain(last.user_id)
  /\ last.ok
  /\ users_matching(last.user_id, last.bot_username) = {}
  /\ SecondsOn(last.user_id, last.bot_username, Today) = 3600

\* C7: remove_user returns true exactly when a record of the key existed and
\* is gone afterwards; when none existed it returns false and the store,
\* subscriptions and usage, is as before.
C7_Revoke ==
  [][last'.op = "remove_user"
       => LET before == {d \in users : /\ d.user_id = last'.user_id
                                       /\ d.bot_username = last'.bot_username}
              after == {d \in users' : /\ d.user_id = last'.user_id
                                       /\ d.bot_username = last'.bot_username}
          IN  /\ last'.ok <=> (before # {} /\ after = {})
              /\ before = {} => /\ ~last'.ok
                                /\ users' = users
                                /\ free_usage' = free_usage]_vars

\* a revoke of a key with no record, on a store that holds other records
C7_Witness ==
  /\ last.op = "remove_user"
  /\ ~last.fail1
  /\ last.prior = <<>>
  /\ ~last.ok
  /\ users # {}
  /\ free_usage # {}
\* C5: after add_user succeeds in writing, the key has exactly one record and
\* its expiry_date is the time of this call plus days, whatever an earlier
\* grant had left there.
C5_GrantOverwrites ==
  (last.op = "add_user" /\ ~last.fail1)
  => LET m == users_matching(last.user_id, last.bot_username)
     IN  /\ Cardinality(m) = 1
         /\ \A d \in m : d.expiry_date = now + last.arg * DayLen

\* a second grant on a key whose record carried another expiry, given for a
\* different number of days at a later time
C5_Witness ==
  /\ last.op = "add_user"
  /\ ~last.fail1
  /\ last.prior # <<>>
  /\ last.prior[1] # now + last.arg * DayLen
  /\ last.prior[1] > now
  /\ \E d \in users_matching(last.user_id, last.bot_username) :
       d.expiry_date = now + last.arg * DayLen /\ d.added_date > 0

\* C6: whenever its store write does not fail, add_user returns
\* (True, now + days), whatever the record held before.
C6_GrantReturnsExpiry ==
  (last.op = "add_user" /\ ~last.fail1)
  => last.ok /\ last.val = <<now + last.arg * DayLen>>

\* C8: on every date and for every key, get_free_tier_usage_today is the sum of
\* the seconds add_free_tier_usage has added for the key that date;
\* can_use_free_tier returns remaining = max(0, max_hours*3600 - usage), never
\* negative, and true exactly when remaining > 0, so usage at or above the
\* limit denies.
C8_UsageAccumulates ==
  \A u \in Users, b \in Bots, max_hours \in 1..3 :
    LET used == get_free_tier_usage_today(u, b, FALSE)
        r == can_use_free_tier(u, b, max_hours, FALSE)
        limit == max_hours * 3600
    IN  /\ used = Booked(u, b, Today)
        /\ r[2] = (IF limit - used > 0 THEN limit - used ELSE 0)
        /\ r[2] >= 0
        /\ r[1] <=> r[2] > 0
        /\ used >= limit => ~r[1]

\* a second hour added on top of a first brings the key to the two-hour limit:
\* nothing remains and the free tier is denied
C8_Witness ==
  /\ last.op = "add_free_tier_usage"
  /\ last.ok
  /\ last.prior = <<3600>>
  /\ last.arg = 3600
  /\ get_free_tier_usage_today(last.user_id, last.bot_username, FALSE) = 7200
  /\ can_use_free_tier(last.user_id, last.bot_username, 2, FALSE) = <<FALSE, 0>>

\* C9: a key for which nothing was added on the current date has usage 0
\* today, whatever was added on other dates; and no step modifies or deletes
\* a usage document of a date other than the current one.
C9_DateIsolation ==
  /\ [](\A u \in Users, b \in Bots :
          (\A e \in ledger : ~ (/\ e.user_id = u
                                /\ e.bot_username = b
                                /\ e.date = Today))
          => get_free_tier_usage_today(u, b, FALSE) = 0)
  /\ [][\A d \in free_usage :
          d.date # (now' \div DayLen) => d \in free_usage']_vars

\* on the second date, a key with an hour used the day before and nothing
\* today reads 0, while another key has been charged today and the earlier
\* document is still in the store
C9_Witness ==
  /\ Today = 1
  /\ \E d \in free_usage :
       /\ d.date = 0
       /\ d.seconds_used = 3600
       /\ usage_matching(d.user_id, d.bot_username, Today) = {}
       /\ get_free_tier_usage_today(d.user_id, d.bot_username, FALSE) = 0
  /\ \E e \in free_usage : e.date = 1 /\ e.seconds_used = 3600

\* C10: when a sweep in which every notification and every store call
\* succeeded reaches its return, the store holds the records it held at the
\* scan minus exactly those with expiry_date < current_time whose user_id is
\* neither the owner nor an admin.
C10_SweepDeletesExpired ==
  (sweep.pc = "return" /\ sweep.clean)
  => users = {d \in sweep.users0 :
                ~ (/\ d.expiry_date < sweep.current_time
                   /\ d.user_id # OWNER_ID
                   /\ d.user_id \notin Range(ADMINS))}

\* a clean sweep over an expired plain user, an expired admin and a plain user
\* still valid: the first is gone, the other two remain
C10_Witness ==
  /\ sweep.pc = "return"
  /\ sweep.clean
  /\ sweep.removed_count = 1
  /\ \E d \in sweep.users0 :
       /\ Plain(d.user_id)
       /\ d.expiry_date < sweep.current_time
       /\ d.id \in sweep.deleted
       /\ d \notin users
  /\ \E d \in users :
       d.user_id \in Range(ADMINS) /\ d.expiry_date < sweep.current_time
  /\ \E d \in users :
       Plain(d.user_id) /\ d.expiry_date >= sweep.current_time
\* C11: when a sweep returns, every record it scanned whose user notification
\* could not be delivered has been deleted all the same.
C11_UnsentStillDeleted ==
  sweep.pc = "return"
  => \A d \in sweep.scanned :
       d.id \in sweep.unsent => \A e \in users : e.id # d.id

\* C12: a sweep reaches its return only with the cursor exhausted, and every
\* scanned record whose own notification and delete did not fail is then
\* deleted, whatever failed for the other records of the scan.
C12_PerUserIsolation ==
  sweep.pc = "return"
  => /\ sweep.pending = {}
     /\ \A d \in sweep.scanned :
          d.id \notin sweep.unsent \cup sweep.undeleted
          => d.id \in sweep.deleted /\ (\A e \in users : e.id # d.id)

\* a sweep over two expired users returns after the first could not be
\* processed and the second, taken up after it, was deleted and reported
C12_Witness ==
  /\ sweep.pc = "return"
  /\ Cardinality(sweep.scanned) = 2
  /\ sweep.unsent \cup sweep.undeleted # {}
  /\ sweep.deleted # {}
  /\ sweep.removed_count = 1
  /\ last.op = "cleanup_step" /\ last.bot_username = "notify_admin"

\* C14: a sweep started right after another returned (one whose scan and
\* deletes did not raise), with no clock advance and no other operation
\* between the two, selects nothing (so notifies nobody), deletes nothing and
\* returns 0.
C14_SecondSweepNoOp ==
  (sweep.pc = "return" /\ sweep.follows)
  => /\ sweep.scanned = {}
     /\ sweep.removed_count = 0
     /\ users = sweep.users0
\* C13: the count a sweep returns is the number of records the sweep itself
\* took out of the store, whatever else ran during its awaits; a sweep whose
\* scan raised returns 0.
C13_CountIsRemoved ==
  sweep.pc = "return"
  => sweep.removed_count = Cardinality(sweep.deleted)
\* C15: once no add_free_tier_usage call is under way, today's usage of every
\* key, as get_free_tier_usage_today reads it, is the sum of the seconds of all
\* the calls made for the key that date, however the calls of concurrent
\* workers interleaved.
C15_NoLostUpdates ==
  inflight = {}
  => \A e \in ledger :
       e.date = Today
       => get_free_tier_usage_today(e.user_id, e.bot_username, FALSE) = e.total
\* C16: when the store read behind it fails, can_use_free_tier returns
\* (False, 0) and get_free_tier_usage_today returns 0.
C16_QuotaFailClosed ==
  /\ (last.op = "can_use_free_tier" /\ last.fail1)
     => ~last.ok /\ last.val = <<0>>
  /\ (last.op = "get_free_tier_usage_today" /\ last.fail1)
     => last.val = <<0>>

\* C20: with the store answering, get_user_expiry_info returns None when the
\* key has no record; otherwise days_left is the whole number k of days with
\* k days <= expiry_date - now < (k + 1) days (negative once expired), and
\* is_active is days_left > 0.
C20_ExpiryInfo ==
  (last.op = "get_user_expiry_info" /\ ~last.fail1)
  => LET m == users_matching(last.user_id, last.bot_username)
     IN  /\ m = {} => last.val = <<>> /\ ~last.ok
         /\ \A d \in m :
              /\ Len(last.val) = 1
              /\ last.val[1] * DayLen <= d.expiry_date - now
              /\ d.expiry_date - now < (last.val[1] + 1) * DayLen
              /\ last.ok <=> last.val[1] > 0

\* a subscription that is still valid but has less than a full day left is
\* reported with days_left = 0 and is_active false
C20_Witness ==
  /\ last.op = "get_user_expiry_info"
  /\ ~last.fail1
  /\ last.val = <<0>>
  /\ ~last.ok
  /\ \E d \in users_matching(last.user_id, last.bot_username) :
       d.expiry_date > now /\ d.expiry_date - now < DayLen
\* C19: seconds_used is never negative, and no add_free_tier_usage call,
\* whatever its seconds argument, leaves the accumulator of its key lower
\* than it found it.
C19_UsageMonotone ==
  /\ \A d \in free_usage : d.seconds_used >= 0
  /\ (last.op = "add_free_tier_usage" /\ last.ok /\ last.prior # <<>>)
     => SecondsOn(last.user_id, last.bot_username, Today) >= last.prior[1]
\* the arguments of a grant command are not two numbers with a positive duration
InvalidGrant(args) ==
  \/ Len(args) # 2
  \/ int(args[1]) = <<>>
  \/ int(args[2]) = <<>>
  \/ int(args[2])[1] <= 0

\* C17: a grant command of an admin whose arguments are invalid (not two
\* words, a word that is not a number, a duration of zero or less) changes no
\* record and is answered with a corrective message.
C17_InvalidGrantRejected ==
  [][(/\ last'.op = "add_user_cmd"
      /\ ~Plain(last'.user_id)
      /\ InvalidGrant(last'.args))
       => /\ users' = users
          /\ free_usage' = free_usage
          /\ last'.reply \in {"invalid_format", "invalid_number"}]_vars

\* C18: a grant, revoke or list command whose caller is neither the owner nor
\* an admin changes no subscription and no usage record, is answered with the
\* refusal alone and shows no subscription; so every command that changes a
\* subscription comes from the owner or an admin.
C18_AdminOnlyCommands ==
  [][last'.op \in {"add_user_cmd", "remove_user_cmd", "list_users_cmd"}
       => /\ Plain(last'.user_id)
             => /\ users' = users
                /\ free_usage' = free_usage
                /\ last'.reply \in {"not_admin", "not_authorized"}
                /\ last'.val = <<>>
          /\ users' # users => ~Plain(last'.user_id)]_vars

\* a plain user has sent a well-formed grant for themselves while the store
\* holds a subscription and a usage record, and was refused
C18_Witness ==
  /\ last.op = "add_user_cmd"
  /\ last.user_id = 3
  /\ last.args = <<<<"3">>, <<"1">>>>
  /\ last.reply = "not_admin"
  /\ users # {}
  /\ free_usage # {}
\* C21: every is_user_authorized call whose reads succeed answers, for a plain
\* user, from the store as it is at the call: true exactly when the key has a
\* record with expiry_date > now or today's usage is below the limit.  So a
\* revoked subscription counts no more, and a grant counts at once.
C21_DecidedFromStore ==
  (/\ last.op = "is_user_authorized"
   /\ Plain(last.user_id)
   /\ ~last.fail1 /\ ~last.fail2)
  => (last.ok <=>
        \/ \E d \in users_matching(last.user_id, last.bot_username) :
             d.expiry_date > now
        \/ SecondsOn(last.user_id, last.bot_username, Today) < 2 * 3600)

\* the step before, a revoke deleted a subscription of the user that had not
\* expired; with the quota used up the check now refuses
C21_Witness ==
  /\ last.op = "is_user_authorized"
  /\ Plain(last.user_id)
  /\ ~last.fail1 /\ ~last.fail2
  /\ last.prior # <<>>
  /\ last.prior[1] > now
  /\ ~last.ok
  /\ SecondsOn(last.user_id, last.bot_username, Today) = 2 * 3600
\* C22: with sweeps run again and again, every record of a plain user whose
\* expiry_date has passed is eventually out of the store (or renewed),
\* whether or not the notification of its user is ever delivered.
C22_ExpiredEventuallyDeleted ==
  \A id \in 1..MaxId :
    (\E d \in users : d.id = id /\ Plain(d.user_id) /\ d.expiry_date < now)
    ~> ~(\E d \in users : d.id = id /\ d.expiry_date < now)
\* C23: the delete of a sweep never takes a record whose expiry_date is still
\* ahead at the moment of the delete, whatever ran between the scan and it.
C23_NeverDeletesValid ==
  [][(last'.op = "cleanup_step" /\ last'.bot_username = "notify_user")
       => \A d \in users : d \notin users' => d.expiry_date < now]_vars
\* C24: in a sweep, the admins and the owner are notified of a removal only
\* for a record this sweep has deleted, and the sweep has deleted no record
\* whose user it has not yet tried to notify: neither a record still waiting
\* in the cursor nor the one whose notification is under way.
C24_SweepOrder ==
  /\ sweep.pc = "notify_admin"
     => sweep.user # <<>> /\ sweep.user[1].id \in sweep.deleted
  /\ \A d \in sweep.pending : d.id \notin sweep.deleted
  /\ sweep.pc = "notify_user" => sweep.user[1].id \notin sweep.deleted
\* C25: whether an admin notification of a sweep is delivered or fails, the
\* step leaves the store and the sweep's count as they are, is followed by the
\* attempt to the next recipient while one is left, and after the last
\* recipient the sweep takes the next expired user, returning only when none
\* is left.
C25_AdminNotifyIndependent ==
  [][(last'.op = "cleanup_step" /\ last'.bot_username = "notify_admin")
       => /\ users' = users
          /\ sweep'.removed_count = sweep.removed_count
          /\ sweep'.deleted = sweep.deleted
          /\ sweep.admin < Len(Recipients)
             => /\ sweep'.pc = "notify_admin"
                /\ sweep'.admin = sweep.admin + 1
                /\ sweep'.user = sweep.user
          /\ sweep.admin = Len(Recipients)
             => /\ sweep'.pc = "return" <=> sweep.pending = {}
                /\ sweep'.pc # "return"
                   => /\ sweep'.pc = "notify_user"
                      /\ sweep'.user[1] \in sweep.pending]_vars

\* a sweep returns having deleted and counted two expired users although an
\* admin notification failed on the way, every user notification and delete
\* having succeeded
C25_Witness ==
  /\ sweep.pc = "return"
  /\ ~sweep.clean
  /\ sweep.unsent = {} /\ sweep.undeleted = {}
  /\ Cardinality(sweep.scanned) = 2
  /\ sweep.removed_count = 2
  /\ Cardinality(sweep.deleted) = 2
  /\ \A d \in sweep.scanned : d \notin users
  /\ last.op = "cleanup_step" /\ last.user_id = OWNER_ID /\ last.ok
\* C26: get_free_tier_info changes nothing, and under the same outcome of the
\* store read its can_use and remaining_seconds are the pair can_use_free_tier
\* returns, its used_seconds is what get_free_tier_usage_today returns, and
\* used_hours and used_mins are the floor: used_hours*3600 + used_mins*60 <=
\* used_seconds < used_hours*3600 + used_mins*60 + 60 with 0 <= used_mins < 60.
C26_InfoAgrees ==
  /\ [](last.op = "get_free_tier_info"
        => LET used == last.val[1]
               used_hours == last.val[2]
               used_mins == last.val[3]
           IN  /\ <<last.ok, last.val[4]>> =
                    can_use_free_tier(last.user_id, last.bot_username,
                                      last.arg, last.fail1)
               /\ used = get_free_tier_usage_today(last.user_id,
                                                   last.bot_username, last.fail1)
               /\ used_hours * 3600 + used_mins * 60 <= used
               /\ used < used_hours * 3600 + used_mins * 60 + 60
               /\ 0 <= used_mins /\ used_mins < 60)
  /\ [][last'.op = "get_free_tier_info"
          => users' = users /\ free_usage' = free_usage]_vars

\* a report on 1 h 1 min 40 s of usage against a two-hour limit: 1 hour,
\* 1 minute, 3500 seconds remaining
C26_Witness ==
  /\ last.op = "get_free_tier_info"
  /\ ~last.fail1
  /\ last.arg = 2
  /\ last.ok
  /\ last.val = <<3700, 1, 1, 3500, 0, 58>>
\* is_user_authorized has just refused a plain user without a valid
\* subscription, every read having succeeded, today's usage being at the limit
LockedOut ==
  /\ last.op = "is_user_authorized"
  /\ Plain(last.user_id)
  /\ ~last.fail1 /\ ~last.fail2
  /\ ~last.ok
  /\ \A d \in users_matching(last.user_id, last.bot_username) :
       d.expiry_date <= now
  /\ SecondsOn(last.user_id, last.bot_username, Today) >= 2 * 3600

\* C27: once is_user_authorized has refused a plain user without a valid
\* subscription on a date because the quota is used up, the next call for the
\* same key on that date, no grant and no usage report having been made in
\* between, refuses too.
C27_LockoutPersists ==
  [][(/\ LockedOut
      /\ last'.op = "is_user_authorized"
      /\ last'.user_id = last.user_id
      /\ last'.bot_username = last.bot_username)
     => ~last'.ok]_vars
====
